---- MODULE Spec2Model ----
(***************************************************************************)
(* Model of the API clients of the real-estate chat front end:             *)
(*   - RealEstateService (frontend/src/services/realEstateService.js):     *)
(*     an axios client with a response interceptor, the operations         *)
(*     checkHealth, chatQuery, getPropertyAmenities, negotiatePrice and    *)
(*     finalizeDeal, and the helpers standardizeResponse / handleError;    *)
(*   - ApiService (src/services/apiService.js): the fetch client whose     *)
(*     makeRequest arms an AbortController deadline.                       *)
(*   - handleApiError (src/utils/errorHandler.js) and the two ChatInterface *)
(*     components, whose handlers await the operations of the service.     *)
(* One call is in progress at a time; the variables keep the trace of the  *)
(* call (requests issued, backoff waits, outcome of every attempt) until   *)
(* the caller has consumed the result.                                     *)
(***************************************************************************)
EXTENDS Integers, Sequences, FiniteSets, TLC

\* ------------------------------------------------------------------ bounds
\* property identifiers passed by callers range over 0..MaxPropertyId
MaxPropertyId == 1
\* numeric offers passed by callers range over -1..MaxOffer
MaxOffer == 1

\* ------------------------------------------------------- program constants
maxRetries == 3
baseDelayMs == 1000
capDelayMs == 5000
chatTimeoutMs == 10000
defaultTimeoutMs == 30000
apiTimeoutMs == 15000

\* --------------------------------------------------------------- JS values
\* A JavaScript value: its type tag t, its text s (strings, and a name for
\* the content of arrays and objects) and its number n (numbers, and the
\* number of elements or keys of arrays and objects).
Undefined == [t |-> "undefined", s |-> "", n |-> 0]
Null == [t |-> "null", s |-> "", n |-> 0]
Str(x) == [t |-> "string", s |-> x, n |-> 0]
Num(k) == [t |-> "number", s |-> "", n |-> k]
NaN == [t |-> "number", s |-> "NaN", n |-> 0]
Arr(x, len) == [t |-> "array", s |-> x, n |-> len]
Obj(x, keys) == [t |-> "object", s |-> x, n |-> keys]
EmptyObj == Obj("{}", 0)
EmptyArr == Arr("[]", 0)

IsNaN(v) == v.t = "number" /\ v.s = "NaN"

\* ToBoolean: undefined, null, "", 0 and NaN are falsy, every object is truthy
Truthy(v) ==
  CASE v.t = "undefined" -> FALSE
    [] v.t = "null" -> FALSE
    [] v.t = "string" -> v.s # ""
    [] v.t = "number" -> ~IsNaN(v) /\ v.n # 0
    [] OTHER -> TRUE

\* a || b
OrElse(a, b) == IF Truthy(a) THEN a ELSE b

\* The strings callers pass as an offer, with what Number(s) and
\* parseFloat(s) make of each.
OfferStrings == {"abc", "1", "1abc", "-1", ""}

StringToNumber(s) ==
  CASE s = "1" -> Num(1)
    [] s = "-1" -> Num(-1)
    [] s = "" -> Num(0)
    [] OTHER -> NaN

ParseFloatString(s) ==
  CASE s = "1" -> Num(1)
    [] s = "1abc" -> Num(1)
    [] s = "-1" -> Num(-1)
    [] OTHER -> NaN

\* ToNumber, as the relational operators apply it to a primitive operand
ToNumber(v) ==
  CASE v.t = "number" -> v
    [] v.t = "string" -> StringToNumber(v.s)
    [] v.t = "null" -> Num(0)
    [] OTHER -> NaN

\* parseFloat(v): the argument is converted to a string first
parseFloat(v) ==
  CASE v.t = "number" -> v
    [] v.t = "string" -> ParseFloatString(v.s)
    [] OTHER -> NaN

\* v <= 0 : false whenever the operand converts to NaN
LessEqZero(v) == LET x == ToNumber(v) IN ~IsNaN(x) /\ x.n <= 0

Min(a, b) == IF a <= b THEN a ELSE b

\* ---------------------------------------------------------- response data
\* The value of a `data` field (or of an envelope's data): type tag t, the
\* object it is (ref), the three amenities fields and the number of other keys.
DataVal(t, ref, am, pi, sc, other) ==
  [t |-> t, ref |-> ref, amenities |-> am, property_info |-> pi,
   amenity_score |-> sc, other |-> other]

UndefinedData == DataVal("undefined", "", Undefined, Undefined, Undefined, 0)
NullData == DataVal("null", "", Undefined, Undefined, Undefined, 0)
StringData == DataVal("string", "text", Undefined, Undefined, Undefined, 0)
EmptyData(ref) == DataVal("object", ref, Undefined, Undefined, Undefined, 0)

DataTruthy(d) == d.t \notin {"undefined", "null"}

IsMapping(d) == d.t = "object"

IsEmptyMapping(d) ==
  /\ d.t = "object"
  /\ d.amenities = Undefined /\ d.property_info = Undefined
  /\ d.amenity_score = Undefined /\ d.other = 0

\* A response body or an envelope: a JSON value that is null or an object with
\* the envelope fields, the amenities fields and `other` further keys.
Body(st, msg, ts, d, am, pi, sc, other) ==
  [isNull |-> FALSE, status |-> st, message |-> msg, timestamp |-> ts,
   data |-> d, amenities |-> am, property_info |-> pi, amenity_score |-> sc,
   other |-> other]

NullBody ==
  [isNull |-> TRUE, status |-> Undefined, message |-> Undefined,
   timestamp |-> Undefined, data |-> UndefinedData, amenities |-> Undefined,
   property_info |-> Undefined, amenity_score |-> Undefined, other |-> 0]

Envelope(st, msg, d, ts) ==
  Body(st, msg, ts, d, Undefined, Undefined, Undefined, 0)

Present(v) == IF v.t = "undefined" THEN 0 ELSE 1

\* the body itself, used as a data value
BodyAsData(b) ==
  DataVal("object", "body", b.amenities, b.property_info, b.amenity_score,
          b.other + Present(b.status) + Present(b.message)
            + Present(b.timestamp) + Present(b.data))

\* new Date().toISOString()
Now == Str("now")

\* ------------------------------------------------- what the backend sends
BackendStatuses == {Undefined, Str("success"), Str("error"), Str("partial")}
BackendMessages == {Undefined, Str("Found 3 matches"), Str(""), Num(7)}
BackendTimestamps == {Undefined, Str("2024-01-01T00:00:00.000Z")}
BackendAmenities == {Undefined, Arr("Gym,Pool", 2)}
BackendData ==
  { UndefinedData, NullData, StringData, EmptyData("body.data"),
    DataVal("object", "body.data", Undefined, Undefined, Undefined, 1),
    DataVal("object", "body.data", Arr("Gym,Pool", 2), Obj("info", 2),
            Obj("score", 1), 0),
    DataVal("object", "body.data", EmptyArr, Undefined, Undefined, 0) }

\* An enveloped body has no amenities details of its own at top level; a
\* flattened body (no data field) may carry property_info and amenity_score.
Bodies ==
  {NullBody} \cup
  { Body(st, msg, ts, d, am, Undefined, Undefined, 0) :
      st \in BackendStatuses, msg \in BackendMessages,
      ts \in BackendTimestamps, d \in BackendData, am \in BackendAmenities }
  \cup
  { Body(st, msg, ts, UndefinedData, am, Obj("info", 2), Obj("score", 1), 0) :
      st \in BackendStatuses, msg \in BackendMessages,
      ts \in BackendTimestamps, am \in BackendAmenities }

ErrorStatuses == {400, 404, 500, 503}
ServerMessages == {Undefined, Str("Internal failure")}

\* The outcome of one HTTP exchange: a 2xx answer with a body, an answer with
\* an error status (and possibly a message in its body), no connection, or
\* no answer before the transport timeout.
Outcome(kind, status, body, serverMessage) ==
  [kind |-> kind, status |-> status, body |-> body,
   serverMessage |-> serverMessage]

Outcomes ==
  { Outcome("ok", 200, b, Undefined) : b \in Bodies } \cup
  { Outcome("http", s, NullBody, m) : s \in ErrorStatuses, m \in ServerMessages } \cup
  { Outcome("network", 0, NullBody, Undefined),
    Outcome("timeout", 0, NullBody, Undefined) }


\* What the backend does with one request, apart from the content it sends.
Class(kind, status) == [kind |-> kind, status |-> status]

Classes ==
  { Class("ok", 200), Class("network", 0), Class("timeout", 0) } \cup
  { Class("http", s) : s \in ErrorStatuses }

\* the backend's conduct towards the next n requests
Scripts(n) == [1..n -> Classes]

OutcomesOf(c) == { o \in Outcomes : o.kind = c.kind /\ o.status = c.status }

\* ------------------------------------------------------------------ errors
\* A thrown error: name, message, code, and what error.response carries
\* (status 0 and respMessage Undefined when there is no response).
Err(name, message, code, status, respMessage) ==
  [name |-> name, message |-> message, code |-> code, status |-> status,
   respMessage |-> respMessage]

NoError == Err("", "", "", 0, Undefined)

\* reading a property of null (data.status, data.data)
NullTypeError == Err("TypeError", "Cannot read properties of null", "", 0, Undefined)

StatusCodeMessage(status) ==
  CASE status = 400 -> "Request failed with status code 400"
    [] status = 404 -> "Request failed with status code 404"
    [] status = 500 -> "Request failed with status code 500"
    [] status = 503 -> "Request failed with status code 503"
    [] OTHER -> "Request failed"

TimeoutExceededMessage(timeoutMs) ==
  IF timeoutMs = chatTimeoutMs THEN "timeout of 10000ms exceeded"
  ELSE "timeout of 30000ms exceeded"

\* the error axios rejects with for an outcome that is not a 2xx answer
AxiosError(o, timeoutMs) ==
  CASE o.kind = "http" ->
         Err("AxiosError", StatusCodeMessage(o.status),
             IF o.status >= 500 THEN "ERR_BAD_RESPONSE" ELSE "ERR_BAD_REQUEST",
             o.status, o.serverMessage)
    [] o.kind = "network" -> Err("AxiosError", "Network Error", "ERR_NETWORK", 0, Undefined)
    [] OTHER ->
         Err("AxiosError", TimeoutExceededMessage(timeoutMs), "ECONNABORTED", 0, Undefined)

\* ------------------------------------------------------ RealEstateService
Resolved(data) == [settled |-> "resolved", data |-> data, error |-> NoError]
Rejected(error) == [settled |-> "rejected", data |-> NullBody, error |-> error]

\* A response interceptor whose error branch passes the rejection on.
ResponseInterceptor_rejects(o, timeoutMs) ==
  IF o.kind = "ok" THEN Resolved(o.body) ELSE Rejected(AxiosError(o, timeoutMs))

\* The response interceptor: a response passes through; an error is replaced
\* by a resolved response whose data is { status, message, timestamp }.
ResponseInterceptor(o, timeoutMs) ==
  IF o.kind = "ok"
  THEN Resolved(o.body)
  ELSE LET error == AxiosError(o, timeoutMs)
       IN Resolved(Body(Str("error"),
                        OrElse(error.respMessage,
                               OrElse(Str(error.message), Str("Network error occurred"))),
                        Now, UndefinedData, Undefined, Undefined, Undefined, 0))

\* standardizeResponse(data), for a data that is not null
standardizeResponse(data) ==
  Envelope(OrElse(data.status, Str("success")),
           OrElse(data.message, Str("Success")),
           IF DataTruthy(data.data) THEN data.data ELSE BodyAsData(data),
           OrElse(data.timestamp, Now))

\* handleError(error, defaultMessage)
handleError(error, defaultMessage) ==
  Envelope(Str("error"),
           IF Truthy(error.respMessage) THEN error.respMessage
           ELSE IF error.message # "" THEN Str(error.message)
           ELSE Str(defaultMessage),
           EmptyData("fresh"),
           Now)

\* A reshape that looks for the amenities under data only.
AmenitiesObject_nestedonly(data) ==
  LET nested == IF DataTruthy(data.data) THEN data.data.amenities ELSE Undefined
      info == IF data.data.t \in {"undefined", "null"} THEN EmptyObj
              ELSE OrElse(data.data.property_info, EmptyObj)
      score == IF data.data.t \in {"undefined", "null"} THEN EmptyObj
               ELSE OrElse(data.data.amenity_score, EmptyObj)
  IN Body(OrElse(data.status, Str("success")),
          OrElse(data.message, Str("Amenities retrieved successfully")),
          OrElse(data.timestamp, Now),
          DataVal("object", "fresh", OrElse(nested, EmptyArr), info, score, 0),
          Undefined, Undefined, Undefined, 0)

\* d.amenities, d.property_info, d.amenity_score of a data value: undefined
\* for everything that is not an object
\* (getPropertyAmenities reads them through data.data && ... and data.data?.)
AmenitiesObject(data) ==
  LET nested == IF DataTruthy(data.data) /\ Truthy(data.data.amenities)
                THEN data.data.amenities ELSE data.amenities
      amenitiesData == OrElse(nested, EmptyArr)
      info == IF data.data.t \in {"undefined", "null"} THEN EmptyObj
              ELSE OrElse(data.data.property_info, EmptyObj)
      score == IF data.data.t \in {"undefined", "null"} THEN EmptyObj
               ELSE OrElse(data.data.amenity_score, EmptyObj)
  IN Body(OrElse(data.status, Str("success")),
          OrElse(data.message, Str("Amenities retrieved successfully")),
          OrElse(data.timestamp, Now),
          DataVal("object", "fresh", amenitiesData, info, score, 0),
          Undefined, Undefined, Undefined, 0)

\* the guard of negotiatePrice: !propertyId || !offer || offer <= 0
NegotiateInvalid(propertyId, offer) ==
  ~Truthy(propertyId) \/ ~Truthy(offer) \/ LessEqZero(offer)

\* the guard of finalizeDeal: !propertyId
FinalizeInvalid(propertyId) == ~Truthy(propertyId)

\* A parameter without its default value.
DealDetailsParam_nodefault(dealDetails) == dealDetails

\* the default parameter dealDetails = {}: only undefined takes the default
DealDetailsParam(dealDetails) ==
  IF dealDetails.t = "undefined" THEN EmptyObj ELSE dealDetails

\* the delay before the next attempt, computed after retryCount++
RetryDelay(retryCount) == Min(baseDelayMs * 2 ^ retryCount, capDelayMs)

\* ------------------------------------------------------------ caller input
PropertyIds == {Undefined, Null} \cup { Num(i) : i \in 0..MaxPropertyId }
Offers ==
  {Undefined, Null, NaN} \cup { Num(i) : i \in (-1)..MaxOffer }
    \cup { Str(s) : s \in OfferStrings }
DealDetails == {Undefined, Null, EmptyObj, Obj("details", 2)}
Queries == {Str(""), Str("Find 2BHK apartments")}

NoArgs == [propertyId |-> Undefined, offer |-> Undefined,
           details |-> Undefined, query |-> Undefined]

Request(method, path, propertyId, field, value, timeoutMs) ==
  [method |-> method, path |-> path, propertyId |-> propertyId,
   field |-> field, value |-> value, timeoutMs |-> timeoutMs]

NoRequest == Request("", "", Undefined, "", Undefined, 0)

NoResult == [kind |-> "none", value |-> NullBody, error |-> NoError]
Returned(value) == [kind |-> "returned", value |-> value, error |-> NoError]
Raised(error) == [kind |-> "raised", value |-> NullBody, error |-> error]

\* one entry of the trace of a call: the outcome of the exchange and the name
\* of the error the operation's try block ended with ("" when none)
Attempt(o, thrown) == [kind |-> o.kind, status |-> o.status, thrown |-> thrown]


\* ------------------------------------------------------------------- state
VARIABLES
  pc,          \* where the call in progress is suspended
  op,          \* the operation in progress
  args,        \* its arguments
  request,     \* the last request handed to the transport
  attempts,    \* requests handed to the transport during this call
  waits,       \* the backoff delays (ms) this call has waited, in order
  history,     \* the outcome of every attempt of this call, in order
  retryCount,  \* chatQuery's retryCount
  lastError,   \* chatQuery's lastError
  timer,       \* makeRequest's deadline timer
  backend,     \* how the backend will treat the successive requests of this call
  received,    \* the last response.data the operation was given
  aborted,     \* makeRequest's controller.signal.aborted
  cancelRequested, \* the caller has asked for the call in progress to be cancelled
  clock,       \* whether the deadline instant of the attempt has passed
  view,        \* the state of the ChatInterface component
  result       \* what the call gave its caller

vars == <<pc, op, args, request, attempts, waits, history, retryCount,
          lastError, timer, backend, received, aborted, cancelRequested, clock, view,
          result>>

\* no ChatInterface is mounted
NoView == [variant |-> "none"]

Init ==
  /\ pc = "idle"
  /\ op = "none"
  /\ args = NoArgs
  /\ request = NoRequest
  /\ attempts = 0
  /\ waits = <<>>
  /\ history = <<>>
  /\ retryCount = 0
  /\ lastError = NoError
  /\ timer = "unset"
  /\ backend = <<>>
  /\ received = NullBody
  /\ aborted = FALSE
  /\ cancelRequested = FALSE
  /\ clock = "before"
  /\ view = NoView
  /\ result = NoResult

\* a call starts from a clean slate
Begin(name, a, script) ==
  /\ pc = "idle"
  /\ op' = name
  /\ args' = a
  /\ backend' = script
  /\ received' = NullBody
  /\ aborted' = FALSE
  /\ cancelRequested' = FALSE
  /\ clock' = "before"
  /\ UNCHANGED view
  /\ waits' = <<>>
  /\ history' = <<>>
  /\ retryCount' = 0
  /\ lastError' = NoError

\* the call hands a request to axios and suspends
Send(req) ==
  /\ pc' = "net"
  /\ request' = req
  /\ attempts' = attempts + 1

\* the call ends
Finish(res) ==
  /\ pc' = "done"
  /\ result' = res

\* RealEstateService.checkHealth()
checkHealth ==
  /\ \E script \in Scripts(1) : Begin("checkHealth", NoArgs, script)
  /\ Send(Request("GET", "/health", Undefined, "", Undefined, defaultTimeoutMs))
  /\ UNCHANGED <<timer, result>>

\* ... its continuation: return response.data, or rethrow
checkHealthSettles ==
  /\ pc = "net" /\ op = "checkHealth"
  /\ \E o \in OutcomesOf(backend[attempts]) :
       LET r == ResponseInterceptor(o, request.timeoutMs)
       IN /\ received' = r.data
          /\ history' = Append(history, Attempt(o, IF r.settled = "rejected" THEN r.error.name ELSE ""))
          /\ Finish(IF r.settled = "resolved" THEN Returned(r.data) ELSE Raised(r.error))
  /\ UNCHANGED <<op, args, request, attempts, waits, retryCount, lastError, timer, backend,
                 aborted, cancelRequested, clock, view>>

\* RealEstateService.chatQuery(query), up to the first axios.post
chatQuery ==
  /\ \E q \in Queries :
       /\ \E script \in Scripts(maxRetries) :
            Begin("chatQuery", [NoArgs EXCEPT !.query = q], script)
       /\ Send(Request("POST", "/chat", Undefined, "query", q, chatTimeoutMs))
  /\ UNCHANGED <<timer, result>>

\* ... one turn of its while loop after the post has settled: return the
\* standardized response, or catch, count, and either wait or give up
chatQuerySettles ==
  /\ pc = "net" /\ op = "chatQuery"
  /\ \E o \in OutcomesOf(backend[attempts]) :
       LET r == ResponseInterceptor(o, request.timeoutMs)
           error == IF r.settled = "rejected" THEN r.error
                    ELSE IF r.data.isNull THEN NullTypeError
                    ELSE NoError
       IN /\ received' = r.data
          /\ history' = Append(history, Attempt(o, error.name))
          /\ IF error = NoError
             THEN /\ Finish(Returned(standardizeResponse(r.data)))
                  /\ UNCHANGED <<waits, retryCount, lastError>>
             ELSE /\ lastError' = error
                  /\ retryCount' = retryCount + 1
                  /\ IF retryCount + 1 < maxRetries
                     THEN /\ waits' = Append(waits, RetryDelay(retryCount + 1))
                          /\ pc' = "backoff"
                          /\ UNCHANGED result
                     ELSE /\ Finish(Returned(handleError(error, "Failed after multiple attempts")))
                          /\ UNCHANGED waits
  /\ UNCHANGED <<op, args, request, attempts, timer, backend, aborted, cancelRequested, clock, view>>

\* A continuation that starts the next post while the last one is awaited.
chatQueryRetries_nowait ==
  /\ pc = "net" /\ op = "chatQuery"
  /\ attempts < maxRetries
  /\ Send(request)
  /\ UNCHANGED <<op, args, waits, history, retryCount, lastError, timer, backend,
                 received, aborted, cancelRequested, clock, view, result>>

\* ... the backoff timer fires: the loop posts again
chatQueryRetries ==
  /\ pc = "backoff" /\ op = "chatQuery"
  /\ Send(request)
  /\ UNCHANGED <<op, args, waits, history, retryCount, lastError, timer, backend,
                 received, aborted, cancelRequested, clock, view, result>>


\* RealEstateService.getPropertyAmenities(propertyId), up to axios.get
getPropertyAmenities ==
  /\ \E id \in PropertyIds :
       /\ \E script \in Scripts(1) :
            Begin("getPropertyAmenities", [NoArgs EXCEPT !.propertyId = id], script)
       /\ Send(Request("GET", "/property/{id}/amenities", id, "", Undefined, defaultTimeoutMs))
  /\ UNCHANGED <<timer, result>>

\* ... its continuation: reshape and standardize, or handleError
getPropertyAmenitiesSettles ==
  /\ pc = "net" /\ op = "getPropertyAmenities"
  /\ \E o \in OutcomesOf(backend[attempts]) :
       LET r == ResponseInterceptor(o, request.timeoutMs)
           error == IF r.settled = "rejected" THEN r.error
                    ELSE IF r.data.isNull THEN NullTypeError
                    ELSE NoError
       IN /\ received' = r.data
          /\ history' = Append(history, Attempt(o, error.name))
          /\ Finish(Returned(IF error = NoError
                             THEN standardizeResponse(AmenitiesObject(r.data))
                             ELSE handleError(error, "Failed to retrieve amenities")))
  /\ UNCHANGED <<op, args, request, attempts, waits, retryCount, lastError, timer, backend,
                 aborted, cancelRequested, clock, view>>

\* RealEstateService.negotiatePrice(propertyId, offer): the guard, then the post
negotiatePrice ==
  /\ \E id \in PropertyIds, offer \in Offers :
       /\ \E script \in Scripts(1) :
            Begin("negotiatePrice", [NoArgs EXCEPT !.propertyId = id, !.offer = offer],
                  IF NegotiateInvalid(id, offer) THEN <<>> ELSE script)
       /\ IF NegotiateInvalid(id, offer)
          THEN /\ Finish(Returned(handleError(
                    Err("Error", "Invalid property ID or offer amount", "", 0, Undefined),
                    "Failed to process negotiation")))
               /\ UNCHANGED <<request, attempts>>
          ELSE /\ Send(Request("POST", "/property/{id}/negotiate", id, "offer",
                               parseFloat(offer), defaultTimeoutMs))
               /\ UNCHANGED result
  /\ UNCHANGED timer

\* the continuation shared by negotiatePrice and finalizeDeal:
\* standardizeResponse(response.data), or handleError in the catch
PostSettles(name, defaultMessage) ==
  /\ pc = "net" /\ op = name
  /\ \E o \in OutcomesOf(backend[attempts]) :
       LET r == ResponseInterceptor(o, request.timeoutMs)
           error == IF r.settled = "rejected" THEN r.error
                    ELSE IF r.data.isNull THEN NullTypeError
                    ELSE NoError
       IN /\ received' = r.data
          /\ history' = Append(history, Attempt(o, error.name))
          /\ Finish(Returned(IF error = NoError
                             THEN standardizeResponse(r.data)
                             ELSE handleError(error, defaultMessage)))
  /\ UNCHANGED <<op, args, request, attempts, waits, retryCount, lastError, timer, backend,
                 aborted, cancelRequested, clock, view>>

negotiatePriceSettles == PostSettles("negotiatePrice", "Failed to process negotiation")

\* RealEstateService.finalizeDeal(propertyId, dealDetails = {})
finalizeDeal ==
  /\ \E id \in PropertyIds, details \in DealDetails :
       /\ \E script \in Scripts(1) :
            Begin("finalizeDeal", [NoArgs EXCEPT !.propertyId = id, !.details = details],
                  IF FinalizeInvalid(id) THEN <<>> ELSE script)
       /\ IF FinalizeInvalid(id)
          THEN /\ Finish(Returned(handleError(
                    Err("Error", "Invalid property ID", "", 0, Undefined),
                    "Failed to finalize deal")))
               /\ UNCHANGED <<request, attempts>>
          ELSE /\ Send(Request("POST", "/property/{id}/close-deal", id, "",
                               DealDetailsParam(details), defaultTimeoutMs))
               /\ UNCHANGED result
  /\ UNCHANGED timer

finalizeDealSettles == PostSettles("finalizeDeal", "Failed to finalize deal")

\* getPropertyAmenities(propertyId) of the RealEstateService with debug
\* logging: the response is standardized without any reshaping
debugGetPropertyAmenities ==
  /\ \E id \in PropertyIds :
       /\ \E script \in Scripts(1) :
            Begin("debugGetPropertyAmenities", [NoArgs EXCEPT !.propertyId = id], script)
       /\ Send(Request("GET", "/property/{id}/amenities", id, "", Undefined, defaultTimeoutMs))
  /\ UNCHANGED <<timer, result>>

debugGetPropertyAmenitiesSettles ==
  PostSettles("debugGetPropertyAmenities", "Failed to retrieve amenities")

\* ------------------------------------------------------------- ApiService
\* what fetch settles with: a response (ok or not), or a rejection
FetchOutcomes ==
  { [kind |-> "response", status |-> s] : s \in {200} \cup ErrorStatuses } \cup
  { [kind |-> "failed", status |-> 0], [kind |-> "rejected", status |-> 0] }

HttpErrorMessage(status) ==
  CASE status = 400 -> "HTTP error! status: 400"
    [] status = 404 -> "HTTP error! status: 404"
    [] status = 500 -> "HTTP error! status: 500"
    [] status = 503 -> "HTTP error! status: 503"
    [] OTHER -> "HTTP error! status"

\* message.includes('Failed to fetch'), over the messages that occur
IncludesFailedToFetch(message) ==
  message \in {"Failed to fetch", "TypeError: Failed to fetch"}

\* A catch block that has no branch for the AbortError.
makeRequestCatch_noabortbranch(error) ==
  IF IncludesFailedToFetch(error.message)
  THEN Err("Error", "Unable to connect to server. Please check your internet connection.",
           "", 0, Undefined)
  ELSE error

\* the catch block of makeRequest: what it throws for the error it caught
makeRequestCatch(error) ==
  IF error.name = "AbortError"
  THEN Err("Error", "Request timeout - please try again", "", 0, Undefined)
  ELSE IF IncludesFailedToFetch(error.message)
  THEN Err("Error", "Unable to connect to server. Please check your internet connection.",
           "", 0, Undefined)
  ELSE error

\* ApiService.checkHealth(): makeRequest arms the deadline and calls fetch
apiCheckHealth ==
  /\ Begin("apiCheckHealth", NoArgs, <<>>)
  /\ pc' = "fetch"
  /\ request' = Request("GET", "/api/health", Undefined, "", Undefined, apiTimeoutMs)
  /\ attempts' = attempts + 1
  /\ timer' = "pending"
  /\ UNCHANGED result

\* A makeRequest without its two calls of clearTimeout.
makeRequestFetchSettles_noclear ==
  /\ pc = "fetch"
  /\ timer = "pending"
  /\ \E o \in FetchOutcomes :
       /\ history' = Append(history, [kind |-> o.kind, status |-> o.status,
                                      thrown |-> IF o.kind = "response"
                                                 THEN (IF o.status = 200 THEN "" ELSE "Error")
                                                 ELSE "TypeError"])
       /\ CASE o.kind = "response" /\ o.status = 200 ->
                 pc' = "json" /\ UNCHANGED result
            [] o.kind = "response" /\ o.status # 200 ->
                 Finish(Raised(makeRequestCatch(
                   Err("Error", HttpErrorMessage(o.status), "", 0, Undefined))))
            [] o.kind = "failed" ->
                 Finish(Raised(makeRequestCatch(
                   Err("TypeError", "Failed to fetch", "", 0, Undefined))))
            [] OTHER ->
                 Finish(Raised(makeRequestCatch(
                   Err("TypeError", "NetworkError when attempting to fetch resource.",
                       "", 0, Undefined))))
  /\ UNCHANGED <<op, args, request, attempts, waits, retryCount, lastError, backend,
                 received, aborted, cancelRequested, clock, view, timer>>

\* fetch settles before the deadline: the timer is cleared; a response that
\* is not ok, and a rejection, go through the catch block
makeRequestFetchSettles ==
  /\ pc = "fetch"
  /\ timer = "pending"
  /\ timer' = "cleared"
  /\ \E o \in FetchOutcomes :
       /\ history' = Append(history, [kind |-> o.kind, status |-> o.status,
                                      thrown |-> IF o.kind = "response"
                                                 THEN (IF o.status = 200 THEN "" ELSE "Error")
                                                 ELSE "TypeError"])
       /\ CASE o.kind = "response" /\ o.status = 200 ->
                 pc' = "json" /\ UNCHANGED result
            [] o.kind = "response" /\ o.status # 200 ->
                 Finish(Raised(makeRequestCatch(
                   Err("Error", HttpErrorMessage(o.status), "", 0, Undefined))))
            [] o.kind = "failed" ->
                 Finish(Raised(makeRequestCatch(
                   Err("TypeError", "Failed to fetch", "", 0, Undefined))))
            [] OTHER ->
                 Finish(Raised(makeRequestCatch(
                   Err("TypeError", "NetworkError when attempting to fetch resource.",
                       "", 0, Undefined))))
  /\ UNCHANGED <<op, args, request, attempts, waits, retryCount, lastError, backend,
                 received, aborted, cancelRequested, clock, view>>

\* the deadline passes first: controller.abort() makes fetch reject with an
\* AbortError, which the catch block turns into the timeout error
makeRequestDeadline ==
  /\ pc = "fetch"
  /\ timer = "pending"
  /\ timer' = "fired"
  /\ history' = Append(history, [kind |-> "aborted", status |-> 0, thrown |-> "AbortError"])
  /\ Finish(Raised(makeRequestCatch(
       Err("AbortError", "The user aborted a request.", "", 0, Undefined))))
  /\ aborted' = TRUE
  /\ clock' = "after"
  /\ UNCHANGED <<op, args, request, attempts, waits, retryCount, lastError, backend,
                 received, cancelRequested, view>>

\* the deadline instant passes while response.json() is awaited: the timer
\* was cleared when fetch settled, so no callback runs and nothing aborts
makeRequestDeadlineAfterClear ==
  /\ pc = "json"
  /\ timer = "cleared"
  /\ clock = "before"
  /\ clock' = "after"
  /\ UNCHANGED <<pc, op, args, request, attempts, waits, history, retryCount, lastError,
                 timer, backend, received, aborted, cancelRequested, view, result>>

\* response.json() settles: the parsed body is returned, or the parse error
\* goes through the catch block
makeRequestJsonSettles ==
  /\ pc = "json"
  /\ \/ \E b \in Bodies : received' = b /\ Finish(Returned(b))
     \/ /\ Finish(Raised(makeRequestCatch(
             Err("SyntaxError", "Unexpected token < in JSON", "", 0, Undefined))))
        /\ UNCHANGED received
  /\ UNCHANGED <<op, args, request, attempts, waits, history, retryCount,
                 lastError, timer, backend, aborted, cancelRequested, clock, view>>

\* ------------------------------------------------------------ handleApiError
TimedOutMessage == "The request timed out. Please check your connection and try again."
CannotConnectMessage == "Unable to connect to the server. Please check if the server is running."
ServerErrorMessage == "Server error occurred. Please try again later."
NotFoundMessage == "The requested resource was not found."
UnexpectedErrorMessage == "An unexpected error occurred. Please try again later."

\* error.message.includes(...), over the messages that occur
IncludesTimeout(message) ==
  message \in {"Request timeout - please try again",
               "timeout of 10000ms exceeded", "timeout of 30000ms exceeded"}

IncludesConnect(message) ==
  message \in {"Unable to connect to server. Please check your internet connection."}

Includes500(message) ==
  message \in {"HTTP error! status: 500", "Request failed with status code 500"}

Includes404(message) ==
  message \in {"HTTP error! status: 404", "Request failed with status code 404"}

\* handleApiError(error): the envelope for the first substring that matches
handleApiError(error) ==
  Envelope(Str("error"),
           Str(IF IncludesTimeout(error.message) THEN TimedOutMessage
               ELSE IF IncludesFailedToFetch(error.message) \/ IncludesConnect(error.message)
                    THEN CannotConnectMessage
               ELSE IF Includes500(error.message) THEN ServerErrorMessage
               ELSE IF Includes404(error.message) THEN NotFoundMessage
               ELSE UnexpectedErrorMessage),
           EmptyData("fresh"),
           Now)

\* the caller of ApiService.checkHealth catches what makeRequest has thrown
\* and passes it to handleApiError
apiCheckHealthHandled ==
  /\ pc = "done" /\ op = "apiCheckHealth"
  /\ result.kind = "raised"
  /\ pc' = "handled"
  /\ lastError' = result.error
  /\ result' = Returned(handleApiError(result.error))
  /\ UNCHANGED <<op, args, request, attempts, waits, history, retryCount, timer,
                 backend, received, aborted, cancelRequested, clock, view>>

\* the caller has taken the result; the next call may start
Reset ==
  /\ pc \in {"done", "handled"}
  /\ pc' = "idle"
  /\ op' = "none"
  /\ args' = NoArgs
  /\ request' = NoRequest
  /\ attempts' = 0
  /\ waits' = <<>>
  /\ history' = <<>>
  /\ retryCount' = 0
  /\ lastError' = NoError
  /\ timer' = "unset"
  /\ backend' = <<>>
  /\ received' = NullBody
  /\ aborted' = FALSE
  /\ cancelRequested' = FALSE
  /\ clock' = "before"
  /\ UNCHANGED view
  /\ result' = NoResult

Next ==
  \/ checkHealth
  \/ checkHealthSettles
  \/ chatQuery
  \/ chatQuerySettles
  \/ chatQueryRetries
  \/ getPropertyAmenities
  \/ getPropertyAmenitiesSettles
  \/ negotiatePrice
  \/ negotiatePriceSettles
  \/ finalizeDeal
  \/ finalizeDealSettles
  \/ debugGetPropertyAmenities
  \/ debugGetPropertyAmenitiesSettles
  \/ apiCheckHealth
  \/ makeRequestFetchSettles
  \/ makeRequestDeadline
  \/ makeRequestDeadlineAfterClear
  \/ makeRequestJsonSettles
  \/ apiCheckHealthHandled
  \/ Reset

Spec == Init /\ [][Next]_vars

\* ------------------------------------------------ calls and a wish to cancel
\* The caller wants the call in progress cancelled. chatQuery(query) and
\* makeRequest(endpoint, options) take no signal and hand out no handle (the
\* AbortController of makeRequest is a local), so the wish reaches nothing.
Cancel ==
  /\ pc \in {"net", "backoff", "fetch", "json"}
  /\ ~cancelRequested
  /\ cancelRequested' = TRUE
  /\ UNCHANGED <<pc, op, args, request, attempts, waits, history, retryCount, lastError,
                 timer, backend, received, aborted, clock, view, result>>

CancelNext ==
  \/ chatQuery
  \/ chatQuerySettles
  \/ chatQueryRetries
  \/ apiCheckHealth
  \/ makeRequestFetchSettles
  \/ makeRequestDeadline
  \/ makeRequestDeadlineAfterClear
  \/ makeRequestJsonSettles
  \/ Cancel
  \/ Reset

SpecCancel == Init /\ [][CancelNext]_vars

\* ------------------------------------------- standardizeResponse on its own
\* The envelopes of the canonical shape: status success or error, a string
\* message, a mapping as data, a timestamp.
CanonicalEnvelopes ==
  { Envelope(st, msg, d, ts) :
      st \in {Str("success"), Str("error")},
      msg \in {Str("Found 3 matches"), Str("")},
      d \in { x \in BackendData : IsMapping(x) },
      ts \in {Str("2024-01-01T00:00:00.000Z")} }

NormalizerInputs == (Bodies \ {NullBody}) \cup CanonicalEnvelopes

NormalizerInit ==
  /\ pc = "raw"
  /\ op = "standardizeResponse"
  /\ received \in NormalizerInputs
  /\ args = NoArgs
  /\ request = NoRequest
  /\ attempts = 0
  /\ waits = <<>>
  /\ history = <<>>
  /\ retryCount = 0
  /\ lastError = NoError
  /\ timer = "unset"
  /\ backend = <<>>
  /\ aborted = FALSE
  /\ cancelRequested = FALSE
  /\ clock = "before"
  /\ view = NoView
  /\ result = NoResult

\* standardizeResponse(data) applied to the input
Normalize ==
  /\ pc = "raw"
  /\ pc' = "normalized"
  /\ result' = Returned(standardizeResponse(received))
  /\ UNCHANGED <<op, args, request, attempts, waits, history, retryCount, lastError,
                 timer, backend, received, aborted, cancelRequested, clock, view>>

\* standardizeResponse applied to the envelope it has just returned
Renormalize ==
  /\ pc = "normalized"
  /\ pc' = "renormalized"
  /\ received' = result.value
  /\ result' = Returned(standardizeResponse(result.value))
  /\ UNCHANGED <<op, args, request, attempts, waits, history, retryCount, lastError,
                 timer, backend, aborted, cancelRequested, clock, view>>

NormalizerNext == Normalize \/ Renormalize

SpecNormalizer == NormalizerInit /\ [][NormalizerNext]_vars


\* ============================================================ ChatInterface
\* Two ChatInterface components exist: the one that renders PropertyCard and
\* takes handlePropertyAction(property, action, data), and the one that
\* tracks connectionStatus and takes handlePropertyAction(action, propertyId,
\* data). Both call RealEstateService; a call is taken here as one exchange
\* with the backend and what the operation returns for it.
Variants == {"PropertyCard", "connectionStatus"}

\* the error the try block of an operation ends with for an exchange
AttemptError(o, timeoutMs) ==
  LET r == ResponseInterceptor(o, timeoutMs)
  IN IF r.settled = "rejected" THEN r.error
     ELSE IF r.data.isNull THEN NullTypeError
     ELSE NoError

\* checkHealth(): response.data, or the rejection rethrown
checkHealthReturn(o) ==
  LET r == ResponseInterceptor(o, defaultTimeoutMs)
  IN IF r.settled = "resolved" THEN Returned(r.data) ELSE Raised(r.error)

\* chatQuery(query), o being its last exchange: the standardized response of
\* an attempt that went well, or handleError(lastError) after the last retry
chatQueryReturn(o) ==
  LET error == AttemptError(o, chatTimeoutMs)
  IN Returned(IF error = NoError
              THEN standardizeResponse(ResponseInterceptor(o, chatTimeoutMs).data)
              ELSE handleError(error, "Failed after multiple attempts"))

getPropertyAmenitiesReturn(o) ==
  LET error == AttemptError(o, defaultTimeoutMs)
  IN Returned(IF error = NoError
              THEN standardizeResponse(AmenitiesObject(ResponseInterceptor(o, defaultTimeoutMs).data))
              ELSE handleError(error, "Failed to retrieve amenities"))

PostReturn(o, defaultMessage) ==
  LET error == AttemptError(o, defaultTimeoutMs)
  IN Returned(IF error = NoError
              THEN standardizeResponse(ResponseInterceptor(o, defaultTimeoutMs).data)
              ELSE handleError(error, defaultMessage))

negotiatePriceReturn(id, offer, o) ==
  IF NegotiateInvalid(id, offer)
  THEN Returned(handleError(Err("Error", "Invalid property ID or offer amount", "", 0, Undefined),
                            "Failed to process negotiation"))
  ELSE PostReturn(o, "Failed to process negotiation")

finalizeDealReturn(id, o) ==
  IF FinalizeInvalid(id)
  THEN Returned(handleError(Err("Error", "Invalid property ID", "", 0, Undefined),
                            "Failed to finalize deal"))
  ELSE PostReturn(o, "Failed to finalize deal")

\* The keys a data object has besides the amenities fields are the ones the
\* component reads: properties, negotiation_status.
HasFurtherKeys(d) == d.t = "object" /\ d.ref = "body.data" /\ d.other > 0

\* response.data?.properties
PropertiesOf(d) ==
  IF HasFurtherKeys(d) THEN {Undefined, EmptyArr, Arr("P1", 1)} ELSE {Undefined}

\* response.data.negotiation_status
NegotiationStatusOf(d) ==
  IF HasFurtherKeys(d) THEN {Undefined, Str("accepted"), Str("counter_offered")}
  ELSE {Undefined}

\* the property the backend lists: its id and its price
ListedProperty == [id |-> Num(1), price |-> 1]

\* Math.round(property.price * 0.95)
SuggestedOffer(property) == Num((property.price * 95 + 50) \div 100)

\* what the user types into the prompt of the Negotiate button, kept by
\* `offer && !isNaN(offer)`, and parseInt of it
PromptedOffers ==
  { ParseFloatString(x) : x \in { y \in OfferStrings : y # "" /\ ~IsNaN(StringToNumber(y)) } }

\* the useState initial values
InitialView(variant) ==
  [variant |-> variant,
   connectionStatus |-> IF variant = "connectionStatus" THEN "checking" ELSE "none",
   loading |-> FALSE,
   actionLoading |-> {},           \* the actions whose key is true
   snackbar |-> "info",            \* the severity last set
   appended |-> <<>>,              \* senders of the messages the last handler appended
   handler |-> "none",             \* the handler that ran last, or is running
   action |-> "",
   hasProperty |-> FALSE,          \* a listed property is on display
   dealStatus |-> "none",
   negotiationStatus |-> "none",
   selectedProperty |-> FALSE,
   showPropertyDetails |-> FALSE]

ViewInit ==
  /\ pc = "unmounted"
  /\ view \in { InitialView(v) : v \in Variants }
  /\ op = "none"
  /\ args = NoArgs
  /\ request = NoRequest
  /\ attempts = 0
  /\ waits = <<>>
  /\ history = <<>>
  /\ retryCount = 0
  /\ lastError = NoError
  /\ timer = "unset"
  /\ backend = <<>>
  /\ received = NullBody
  /\ aborted = FALSE
  /\ cancelRequested = FALSE
  /\ clock = "before"
  /\ result = NoResult

\* a handler calls an operation of the service and suspends at its await
Calls(handler, action, name, a, req) ==
  /\ pc' = "awaiting"
  /\ op' = name
  /\ args' = a
  /\ request' = req
  /\ attempts' = IF req = NoRequest THEN 0 ELSE 1
  /\ history' = <<>>
  /\ result' = NoResult
  /\ UNCHANGED <<waits, retryCount, lastError, timer, backend, received, aborted,
                 cancelRequested, clock>>

\* the operation has returned (or thrown) res after the exchange o
Resumes(o, res) ==
  /\ pc' = "ready"
  /\ history' = IF attempts = 0 THEN <<>> ELSE <<Attempt(o, "")>>
  /\ result' = res
  /\ UNCHANGED <<op, args, request, attempts, waits, retryCount, lastError, timer,
                 backend, received, aborted, cancelRequested, clock>>

\* the mount effect of the component with PropertyCard: the welcome message
useEffectMount ==
  /\ pc = "unmounted" /\ view.variant = "PropertyCard"
  /\ pc' = "ready"
  /\ view' = [view EXCEPT !.handler = "useEffect", !.appended = <<"agent">>]
  /\ UNCHANGED <<op, args, request, attempts, waits, history, retryCount, lastError, timer,
                 backend, received, aborted, cancelRequested, clock, result>>

\* the mount effect of the component with connectionStatus: checkConnection
\* calls checkHealth, and the welcome message is set
checkConnection ==
  /\ pc = "unmounted" /\ view.variant = "connectionStatus"
  /\ view' = [view EXCEPT !.handler = "checkConnection", !.appended = <<"agent">>]
  /\ Calls("checkConnection", "", "checkHealth", NoArgs,
           Request("GET", "/health", Undefined, "", Undefined, defaultTimeoutMs))

\* ... its continuation: connected when the await returns, disconnected in
\* the catch
checkConnectionSettles ==
  /\ pc = "awaiting" /\ view.handler = "checkConnection"
  /\ \E o \in Outcomes :
       LET res == checkHealthReturn(o)
       IN /\ Resumes(o, res)
          /\ view' = [view EXCEPT !.connectionStatus =
                        IF res.kind = "returned" THEN "connected" ELSE "disconnected"]

\* disabled={loading || connectionStatus !== 'connected'} of the text field
InputDisabled ==
  view.loading \/ (view.variant = "connectionStatus" /\ view.connectionStatus # "connected")

\* handleSubmit with a non-empty input, up to the await of chatQuery
handleSubmit ==
  /\ pc = "ready"
  /\ ~InputDisabled
  /\ \E q \in { x \in Queries : Truthy(x) } :
       Calls("handleSubmit", "", "chatQuery", [NoArgs EXCEPT !.query = q],
             Request("POST", "/chat", Undefined, "query", q, chatTimeoutMs))
  /\ view' = [view EXCEPT !.handler = "handleSubmit", !.action = "",
                          !.appended = <<"user">>, !.loading = TRUE]

\* A handler without its finally block.
handleSubmitFinally_none(v) == v

\* the finally block of handleSubmit
handleSubmitFinally(v) == [v EXCEPT !.loading = FALSE]

\* ... its continuation in the component with connectionStatus, where
\* `const [setProperties] = useState([])` binds setProperties to the array:
\* calling it for a non-empty list throws a TypeError inside the try block
handleSubmitSettles ==
  /\ pc = "awaiting" /\ view.handler = "handleSubmit" /\ view.variant = "connectionStatus"
  /\ \E o \in Outcomes :
       LET res == chatQueryReturn(o)
       IN /\ Resumes(o, res)
          /\ \E properties \in PropertiesOf(res.value.data) :
               view' = handleSubmitFinally(
                 IF properties.t = "array" /\ properties.n > 0
                 THEN [view EXCEPT !.appended = view.appended \o <<"agent", "agent">>,
                                   !.hasProperty = TRUE]
                 ELSE [view EXCEPT !.appended = Append(view.appended, "agent")])

\* ... its continuation in the component with PropertyCard: the agent
\* message, the listed properties (or the search for alternatives, which may
\* add a message of its own), and the error snackbar
cardHandleSubmitSettles ==
  /\ pc = "awaiting" /\ view.handler = "handleSubmit" /\ view.variant = "PropertyCard"
  /\ \E o \in Outcomes :
       LET res == chatQueryReturn(o)
       IN /\ Resumes(o, res)
          /\ \E properties \in PropertiesOf(res.value.data),
                alternatives \in IF HasFurtherKeys(res.value.data) THEN BOOLEAN ELSE {FALSE} :
               LET listed == properties.t = "array" /\ properties.n > 0
                   found == ~listed /\ alternatives
               IN view' = handleSubmitFinally(
                    [view EXCEPT
                       !.appended = view.appended \o
                                      (IF found THEN <<"agent", "agent">> ELSE <<"agent">>),
                       !.hasProperty = listed \/ found,
                       !.dealStatus = "none",
                       !.negotiationStatus = "none",
                       !.snackbar = IF res.value.status = Str("error") THEN "error" ELSE @])

\* handlePropertyAction(action, propertyId, data) of the component with
\* connectionStatus, from the buttons of a listed property, up to the await
handlePropertyAction ==
  /\ pc = "ready" /\ view.variant = "connectionStatus"
  /\ view.hasProperty
  /\ \E action \in {"amenities", "negotiate", "finalize"} :
       /\ action \notin view.actionLoading
       /\ view' = [view EXCEPT !.handler = "handlePropertyAction", !.action = action,
                               !.appended = <<>>,
                               !.actionLoading = @ \cup {action}]
       /\ LET id == ListedProperty.id
          IN CASE action = "amenities" ->
                    Calls("handlePropertyAction", action, "getPropertyAmenities",
                          [NoArgs EXCEPT !.propertyId = id],
                          Request("GET", "/property/{id}/amenities", id, "", Undefined,
                                  defaultTimeoutMs))
               [] action = "negotiate" ->
                    \E offer \in PromptedOffers :
                      Calls("handlePropertyAction", action, "negotiatePrice",
                            [NoArgs EXCEPT !.propertyId = id, !.offer = offer],
                            IF NegotiateInvalid(id, offer) THEN NoRequest
                            ELSE Request("POST", "/property/{id}/negotiate", id, "offer",
                                         parseFloat(offer), defaultTimeoutMs))
               [] OTHER ->
                    Calls("handlePropertyAction", action, "finalizeDeal",
                          [NoArgs EXCEPT !.propertyId = id, !.details = EmptyObj],
                          Request("POST", "/property/{id}/close-deal", id, "",
                                  DealDetailsParam(EmptyObj), defaultTimeoutMs))

\* what the operation awaited by handlePropertyAction returns after o
ActionReturn(o) ==
  CASE op = "getPropertyAmenities" -> getPropertyAmenitiesReturn(o)
    [] op = "negotiatePrice" -> negotiatePriceReturn(args.propertyId, args.offer, o)
    [] op = "finalizeDeal" -> finalizeDealReturn(args.propertyId, o)
    [] OTHER -> chatQueryReturn(o)

\* the finally block of handlePropertyAction: the key is false, or deleted
handlePropertyActionFinally(v) == [v EXCEPT !.actionLoading = @ \ {v.action}]

\* ... its continuation: the agent message and the success snackbar for
\* whatever the operation has returned
handlePropertyActionSettles ==
  /\ pc = "awaiting" /\ view.handler = "handlePropertyAction"
  /\ view.variant = "connectionStatus"
  /\ \E o \in Outcomes :
       /\ Resumes(o, ActionReturn(o))
       /\ view' = handlePropertyActionFinally(
                    [view EXCEPT !.appended = Append(view.appended, "agent"),
                                 !.snackbar = "success"])

\* A card that renders Close Deal whatever the negotiation has come to.
CardButtons_alwaysclose ==
  {"viewDetails", "showAmenities"} \cup
  (IF view.dealStatus # "closed"
   THEN {"makeOffer", "closeDeal"} \cup
        (IF view.negotiationStatus = "counter_offered" THEN {"negotiate"} ELSE {})
   ELSE {})

\* the buttons a PropertyCard renders for the listed property
CardButtons ==
  {"viewDetails", "showAmenities"} \cup
  (IF view.dealStatus # "closed"
   THEN {"makeOffer"} \cup
        (IF view.negotiationStatus = "accepted" THEN {"closeDeal"} ELSE {}) \cup
        (IF view.negotiationStatus = "counter_offered" THEN {"negotiate"} ELSE {})
   ELSE {})

\* handlePropertyAction(property, action, data) of the component with
\* PropertyCard, up to its await: the processing message, then the call
cardHandlePropertyActionCalls(v, action) ==
  /\ view' = [v EXCEPT !.handler = "handlePropertyAction", !.action = action,
                          !.appended = <<"agent">>,
                          !.actionLoading = @ \cup {action},
                          !.selectedProperty = IF action = "viewDetails" THEN TRUE ELSE @,
                          !.showPropertyDetails =
                             IF action = "viewDetails" THEN TRUE ELSE @]
  /\ LET id == ListedProperty.id
         offer == SuggestedOffer(ListedProperty)
     IN CASE action = "viewDetails" ->
               Calls("handlePropertyAction", action, "chatQuery",
                     [NoArgs EXCEPT !.query = Str("Provide detailed analysis")],
                     Request("POST", "/chat", Undefined, "query",
                             Str("Provide detailed analysis"), chatTimeoutMs))
          [] action = "showAmenities" ->
               Calls("handlePropertyAction", action, "getPropertyAmenities",
                     [NoArgs EXCEPT !.propertyId = id],
                     Request("GET", "/property/{id}/amenities", id, "", Undefined,
                             defaultTimeoutMs))
          [] action \in {"makeOffer", "negotiate"} ->
               Calls("handlePropertyAction", action, "negotiatePrice",
                     [NoArgs EXCEPT !.propertyId = id, !.offer = offer],
                     IF NegotiateInvalid(id, offer) THEN NoRequest
                     ELSE Request("POST", "/property/{id}/negotiate", id, "offer",
                                  parseFloat(offer), defaultTimeoutMs))
          [] OTHER ->
               Calls("handlePropertyAction", action, "finalizeDeal",
                     [NoArgs EXCEPT !.propertyId = id],
                     Request("POST", "/property/{id}/close-deal", id, "",
                             DealDetailsParam(Undefined), defaultTimeoutMs))

\* a button of the PropertyCard is pressed
cardHandlePropertyAction ==
  /\ pc = "ready" /\ view.variant = "PropertyCard"
  /\ view.hasProperty
  /\ \E action \in CardButtons :
       /\ action \notin view.actionLoading
       /\ cardHandlePropertyActionCalls(view, action)

\* Make Offer of the property details dialog: shown whenever a property is
\* selected
dialogMakeOffer ==
  /\ pc = "ready" /\ view.variant = "PropertyCard"
  /\ view.selectedProperty /\ view.showPropertyDetails
  /\ cardHandlePropertyActionCalls([view EXCEPT !.showPropertyDetails = FALSE], "makeOffer")

\* Close of the property details dialog
dialogClose ==
  /\ pc = "ready" /\ view.variant = "PropertyCard"
  /\ view.showPropertyDetails
  /\ view' = [view EXCEPT !.showPropertyDetails = FALSE]
  /\ UNCHANGED <<pc, op, args, request, attempts, waits, history, retryCount, lastError, timer,
                 backend, received, aborted, cancelRequested, clock, result>>

\* ... the continuation of the handler of the component with PropertyCard
cardHandlePropertyActionSettles ==
  /\ pc = "awaiting" /\ view.handler = "handlePropertyAction"
  /\ view.variant = "PropertyCard"
  /\ \E o \in Outcomes :
       LET res == ActionReturn(o)
           ok == res.value.status = Str("success")
       IN /\ Resumes(o, res)
          /\ \E status \in NegotiationStatusOf(res.value.data) :
               view' = handlePropertyActionFinally(
                 [view EXCEPT
                    !.appended = IF ok \/ view.action = "viewDetails"
                                 THEN Append(@, "agent") ELSE @,
                    !.negotiationStatus =
                       IF ok /\ view.action \in {"makeOffer", "negotiate"}
                       THEN (IF status.t = "string" THEN status.s ELSE "undefined")
                       ELSE @,
                    !.dealStatus = IF ok /\ view.action = "closeDeal" THEN "closed" ELSE @,
                    !.snackbar = IF ok /\ view.action = "closeDeal" THEN "success" ELSE @])

ViewNext ==
  \/ useEffectMount
  \/ checkConnection
  \/ checkConnectionSettles
  \/ handleSubmit
  \/ handleSubmitSettles
  \/ cardHandleSubmitSettles
  \/ handlePropertyAction
  \/ handlePropertyActionSettles
  \/ cardHandlePropertyAction
  \/ dialogMakeOffer
  \/ dialogClose
  \/ cardHandlePropertyActionSettles

SpecView == ViewInit /\ [][ViewNext]_vars


\* ================================================================ properties
FacadeOps == {"checkHealth", "chatQuery", "getPropertyAmenities",
              "negotiatePrice", "finalizeDeal"}

Done(name) == pc = "done" /\ op = name

\* the attempt ended in a failure of the exchange
AttemptFailed(a) == ~(a.kind = "ok" \/ (a.kind = "response" /\ a.status = 200))

\* the call failed: it was refused before any request, or its last exchange failed
CallFailed ==
  \/ attempts = 0
  \/ history # <<>> /\ AttemptFailed(history[Len(history)])

IsErrorEnvelope(res) ==
  res.kind = "returned" /\ ~res.value.isNull /\ res.value.status = Str("error")

TransientClass(c) ==
  c.kind \in {"timeout", "network"} \/ (c.kind = "http" /\ c.status >= 500)

ServerErrorClass(c) == c.kind = "http" /\ c.status >= 500

ClientErrorClass(c) == c.kind = "http" /\ c.status >= 400 /\ c.status < 500

Absent(v) == v.t \in {"undefined", "null"}

PositiveNumber(v) == v.t = "number" /\ ~IsNaN(v) /\ v.n > 0

RECURSIVE SumSeq(_)
SumSeq(q) == IF q = <<>> THEN 0 ELSE Head(q) + SumSeq(Tail(q))

\* C1: every finished call of checkHealth, chatQuery, getPropertyAmenities,
\* negotiatePrice or finalizeDeal (of either client) has returned a value, it
\* has not raised, and a call that failed has returned an envelope whose
\* status is "error".
C1_NeverRaises ==
  pc = "done" =>
    /\ result.kind = "returned"
    /\ CallFailed => IsErrorEnvelope(result)

\* C2: every value a facade operation returns with status "error" has the
\* empty mapping as its data.
C2_ErrorImpliesEmptyData ==
  pc = "done" /\ op \in FacadeOps /\ IsErrorEnvelope(result)
    => IsEmptyMapping(result.value.data)

\* C3: a chatQuery call whose backend fails every request transiently
\* (timeout, no connection, 5xx) ends with an error envelope after exactly
\* maxRetries = 3 requests.
C3_TransientExhaustsThreeAttempts ==
  Done("chatQuery") /\ (\A i \in 1..maxRetries : TransientClass(backend[i]))
    => attempts = maxRetries /\ IsErrorEnvelope(result)

\* C4: a chatQuery call whose backend answers the first two requests with a
\* 5xx status and the third with a success body returns status "success"
\* after exactly 2 backoff waits and 3 requests.
C4_TransientThenSuccess ==
  /\ Done("chatQuery")
  /\ ServerErrorClass(backend[1]) /\ ServerErrorClass(backend[2])
  /\ backend[3].kind = "ok"
  => /\ attempts = 3
     /\ Len(waits) = 2
     /\ result.kind = "returned"

\* C5: a chatQuery call whose first request is answered with 404 or another
\* 4xx status ends with an error envelope after exactly one request and no
\* backoff wait.
C5_NoRetryOnClientError ==
  Done("chatQuery") /\ ClientErrorClass(backend[1])
    => attempts = 1 /\ waits = <<>> /\ IsErrorEnvelope(result)

C5_Witness ==
  /\ Done("chatQuery") /\ backend[1] = Class("http", 404)
  /\ attempts = 1 /\ IsErrorEnvelope(result)

\* C6: in chatQuery the k-th backoff wait (k = 1 after the first failed
\* attempt) lasts min(1000 * 2^(k-1), 5000) ms, a call of three failed
\* attempts has waited 3000 ms in all, and no wait follows the last attempt.
C6_BackoffDelays ==
  op = "chatQuery" =>
    /\ \A k \in 1..Len(waits) : waits[k] = Min(baseDelayMs * 2 ^ (k - 1), capDelayMs)
    /\ Len(waits) <= maxRetries - 1
    /\ pc = "done" /\ Len(history) = maxRetries /\ retryCount = maxRetries
         => SumSeq(waits) = 3000

\* C7: negotiatePrice sends no request and returns an error envelope when
\* propertyId is absent or offer is not a positive number (null, 0, a
\* negative number, NaN, a non-numeric string); otherwise it sends exactly
\* one request. Stated for the arguments the sentence is explicit about: a
\* propertyId that is absent or a non-zero number, and an offer that is not
\* the decimal text of a number.
C7_NegotiateValidation ==
  /\ op = "negotiatePrice"
  /\ Absent(args.propertyId) \/ Truthy(args.propertyId)
  /\ ~(args.offer.t = "string" /\ ~IsNaN(StringToNumber(args.offer.s)))
  => IF Absent(args.propertyId) \/ ~PositiveNumber(args.offer)
     THEN attempts = 0 /\ pc = "done" /\ IsErrorEnvelope(result)
     ELSE attempts = 1

\* C8: finalizeDeal sends no request and returns an error envelope when
\* propertyId is absent; when it sends a request and dealDetails was
\* omitted, the body of the request is the empty mapping.
C8_FinalizeValidation ==
  op = "finalizeDeal" =>
    /\ Absent(args.propertyId)
         => attempts = 0 /\ pc = "done" /\ IsErrorEnvelope(result)
    /\ attempts > 0 /\ args.details = Undefined => request.value = EmptyObj

C8_Witness ==
  /\ op = "finalizeDeal" /\ pc = "net" /\ attempts = 1
  /\ ~Absent(args.propertyId) /\ args.details = Undefined
  /\ request.value = EmptyObj

\* C9: a chatQuery attempt that ends with an error that is neither a timeout,
\* a connection failure nor an HTTP status error (the TypeError of reading a
\* null body) is not retried: the call ends after exactly one request.
C9_UnknownNotRetried ==
  op = "chatQuery" /\ history # <<>> /\ history[1].thrown = "TypeError"
    => attempts = 1 /\ (pc = "done" => IsErrorEnvelope(result))

\* C10: every value a facade operation returns is a canonical envelope:
\* status "success" or "error", a string message, a mapping as data, and a
\* timestamp.
C10_CanonicalEnvelope ==
  pc = "done" /\ op \in FacadeOps =>
    /\ result.kind = "returned"
    /\ ~result.value.isNull
    /\ result.value.status \in {Str("success"), Str("error")}
    /\ result.value.message.t = "string"
    /\ IsMapping(result.value.data)
    /\ result.value.timestamp # Undefined


\* the last exchange was answered 2xx with a body that is an object
AnsweredWithObject ==
  /\ history # <<>> /\ history[Len(history)].kind = "ok"
  /\ ~received.isNull

\* C11: whatever object the backend answers to getPropertyAmenities (of
\* either RealEstateService), the data of the returned envelope has the three
\* keys: amenities, a sequence; property_info and amenity_score, mappings.
C11_AmenitiesKeys ==
  /\ pc = "done"
  /\ op \in {"getPropertyAmenities", "debugGetPropertyAmenities"}
  /\ AnsweredWithObject
  => /\ result.kind = "returned"
     /\ IsMapping(result.value.data)
     /\ result.value.data.amenities.t = "array"
     /\ result.value.data.property_info.t = "object"
     /\ result.value.data.amenity_score.t = "object"

C13_InfoAndScoreKept ==
  Done("getPropertyAmenities") /\ AnsweredWithObject =>
    /\ received.data.property_info # Undefined
         => result.value.data.property_info = received.data.property_info
    /\ received.data.amenity_score # Undefined
         => result.value.data.amenity_score = received.data.amenity_score
    /\ received.data.t = "undefined" /\ received.property_info # Undefined
         => result.value.data.property_info = received.property_info
    /\ received.data.t = "undefined" /\ received.amenity_score # Undefined
         => result.value.data.amenity_score = received.amenity_score


\* C14: standardizeResponse takes the body's data field as the envelope's
\* data only when the field is a mapping; otherwise (absent, null, or not a
\* mapping) the envelope's data is the body itself.
C14_DataOnlyWhenMapping ==
  pc = "normalized" =>
    result.value.data = IF IsMapping(received.data) THEN received.data
                        ELSE BodyAsData(received)

\* C15: standardizeResponse copies the body's status and message whenever the
\* field is present, and uses "success" and "Success" only when it is absent.
C15_CopiesWhenPresent ==
  pc = "normalized" =>
    /\ result.value.status = IF received.status # Undefined THEN received.status
                             ELSE Str("success")
    /\ result.value.message = IF received.message # Undefined THEN received.message
                              ELSE Str("Success")

\* C16: standardizeResponse returns every canonical envelope as it is, field
\* by field, and applied to an envelope it has returned it returns that
\* envelope again.
C16_Idempotent ==
  /\ pc = "normalized" /\ received \in CanonicalEnvelopes => result.value = received
  /\ pc = "renormalized" => result.value = received


\* C17: an error makeRequest raises for a response that is not ok, passed
\* through handleApiError, is classified by the status alone: 500..599 gives
\* the server error message, 404 the not found message, and every other
\* status in 400..499 a message of its own, none of them the message of an
\* unknown failure.
C17_ClassifiedByStatus ==
  pc = "handled" /\ history[Len(history)].kind = "response" =>
    LET status == history[Len(history)].status
        message == result.value.message
    IN /\ status \in 500..599 => message = Str(ServerErrorMessage)
       /\ status = 404 => message = Str(NotFoundMessage)
       /\ status \in (400..499) \ {404} =>
            message \notin {Str(UnexpectedErrorMessage), Str(ServerErrorMessage),
                            Str(NotFoundMessage), Str(TimedOutMessage),
                            Str(CannotConnectMessage)}

\* C18: the error envelope a facade operation returns carries the fixed
\* message of the kind of its failure, whatever the raw error text or the
\* server's message: the timed out message after a timeout, the server error
\* message after a status 500.
C18_FixedMessagePerKind ==
  pc = "done" /\ op \in FacadeOps /\ history # <<>> /\ IsErrorEnvelope(result) =>
    LET last == history[Len(history)]
    IN /\ last.kind = "timeout" => result.value.message = Str(TimedOutMessage)
       /\ last.kind = "http" /\ last.status = 500
            => result.value.message = Str(ServerErrorMessage)

\* C19: when the deadline of makeRequest passes before fetch has settled, the
\* request is aborted and the call raises the timeout error; no response of
\* the aborted attempt is returned, and afterwards nothing of the attempt
\* runs: no fetch or json continuation, no further request, the timer stays
\* fired.
C19_DeadlineAborts ==
  /\ [](op = "apiCheckHealth" /\ timer = "fired" =>
          /\ aborted
          /\ pc \in {"done", "handled"}
          /\ pc = "done" =>
               /\ result.kind = "raised"
               /\ result.error.name = "Error"
               /\ result.error.message = "Request timeout - please try again"
          /\ received = NullBody)
  /\ [][op = "apiCheckHealth" /\ timer = "fired" =>
          \/ pc' = "idle"
          \/ /\ pc' = "handled"
             /\ <<timer, aborted, attempts, history, received>>' =
                  <<timer, aborted, attempts, history, received>>]_vars

C19_Witness ==
  /\ pc = "done" /\ op = "apiCheckHealth"
  /\ timer = "fired" /\ aborted
  /\ history[Len(history)].kind = "aborted"
  /\ result.kind = "raised"
  /\ result.error.message = "Request timeout - please try again"

\* C20: once the caller has asked for the call to be cancelled, no further
\* attempt starts; a call cancelled in its backoff wait ends at once with an
\* error envelope, and a request cancelled while the network is awaited is
\* aborted.
C20_Cancellable ==
  [][cancelRequested =>
       /\ attempts' <= attempts
       /\ pc = "backoff" => pc' = "done" /\ IsErrorEnvelope(result')
       /\ pc \in {"net", "fetch"} => aborted']_vars

\* C21: every request of chatQuery is a POST to /chat whose body carries the
\* query, unchanged, under the field "message" and under no other field.
C21_ChatBodyField ==
  op = "chatQuery" /\ attempts > 0 =>
    /\ request.method = "POST"
    /\ request.path = "/chat"
    /\ request.value = args.query
    /\ request.field = "message"

\* the requests of the call that have been issued and have not settled
InFlight == attempts - Len(history)

\* C22: within one call of chatQuery at most one request is in flight, none
\* during a backoff wait, and an attempt after the first starts only from the
\* backoff wait that follows the end of the attempt before it.
C22_SequentialAttempts ==
  /\ [](op = "chatQuery" =>
          /\ InFlight \in {0, 1}
          /\ pc = "backoff" => InFlight = 0)
  /\ [][op = "chatQuery" /\ op' = "chatQuery" /\ attempts' = attempts + 1 /\ attempts > 0 =>
          /\ pc = "backoff"
          /\ Len(history) = attempts
          /\ Len(waits) = attempts]_vars

C22_Witness ==
  /\ op = "chatQuery" /\ pc = "net"
  /\ attempts = 3 /\ Len(history) = 2 /\ Len(waits) = 2

\* C23: once makeRequest has returned or thrown, the deadline timer of the
\* attempt is not pending: it has fired or it has been cleared, whichever way
\* the attempt ended.
C23_TimerNeverLeftPending ==
  op = "apiCheckHealth" /\ pc \in {"done", "handled"} => timer \in {"cleared", "fired"}

C23_Witness ==
  /\ op = "apiCheckHealth" /\ pc = "done"
  /\ result.kind = "raised" /\ result.error.name = "SyntaxError"
  /\ timer = "cleared"

\* C24: no attempt of makeRequest is still running after its deadline, and an
\* attempt during which the deadline has passed ends with the timeout error,
\* also when the response had arrived and its body had not.
C24_DeadlineBoundsAttempt ==
  op = "apiCheckHealth" /\ clock = "after" =>
    /\ pc \notin {"fetch", "json"}
    /\ pc = "done" =>
         /\ result.kind = "raised"
         /\ result.error.message = "Request timeout - please try again"

\* C25: what handleApiError makes of a failure depends on its signals only:
\* every connection failure (fetch has rejected, no response, no deadline)
\* gets the cannot connect message and every deadline abort the timed out
\* message, whatever the text of the error.
C25_ClassifiedBySignals ==
  pc = "handled" =>
    LET last == history[Len(history)]
    IN /\ last.kind \in {"failed", "rejected"}
            => result.value.message = Str(CannotConnectMessage)
       /\ last.kind = "aborted" => result.value.message = Str(TimedOutMessage)

\* C26: in the component with connectionStatus, once the mount-time
\* checkHealth has completed, a health request that failed (error status, no
\* connection, timeout) leaves connectionStatus "disconnected" and the chat
\* input disabled, and connectionStatus is "connected" only after a health
\* request the backend answered successfully.
C26_HealthGatesReadiness ==
  view.variant = "connectionStatus" /\ view.handler = "checkConnection" /\ pc = "ready" =>
    /\ AttemptFailed(history[1]) =>
         view.connectionStatus = "disconnected" /\ InputDisabled
    /\ view.connectionStatus = "connected" => ~AttemptFailed(history[1])

\* C27: in the component with connectionStatus, when handlePropertyAction has
\* finished with a snackbar of severity "success", the envelope the service
\* returned has status "success".
C27_SuccessSnackbarOnlyOnSuccess ==
  /\ view.variant = "connectionStatus"
  /\ view.handler = "handlePropertyAction" /\ pc = "ready"
  /\ view.snackbar = "success"
  => result.value.status = Str("success")

\* C28: in the component with connectionStatus, a finished handleSubmit has
\* appended exactly one user message and exactly one agent message,
\* whatever envelope chatQuery has returned.
C28_OneUserOneAgentMessage ==
  view.variant = "connectionStatus" /\ view.handler = "handleSubmit" /\ pc = "ready" =>
    view.appended = <<"user", "agent">>

\* C29: in both components, when a handler has finished, loading is false
\* and the key of its action is not true in actionLoading, whether the
\* service returned a success envelope or an error envelope or the try block
\* threw; while the handler waits for the service its flag is set.
C29_LoadingFlagsCleared ==
  /\ pc = "ready" => ~view.loading /\ view.actionLoading = {}
  /\ pc = "awaiting" /\ view.handler = "handleSubmit" => view.loading
  /\ pc = "awaiting" /\ view.handler = "handlePropertyAction"
       => view.action \in view.actionLoading

C29_Witness ==
  /\ pc = "ready" /\ view.handler = "handleSubmit"
  /\ view.variant = "connectionStatus"
  /\ view.appended = <<"user", "agent", "agent">>
  /\ ~view.loading

\* C30: in the component with PropertyCard, while the dealStatus of the
\* listed property is "closed" no negotiatePrice request for it is awaited.
C30_NoNegotiationAfterClose ==
  view.variant = "PropertyCard" /\ view.dealStatus = "closed" =>
    ~(pc = "awaiting" /\ op = "negotiatePrice" /\ attempts = 1)

\* C31: in the component with PropertyCard, a handler calls finalizeDeal only
\* when, at the user's action, the negotiationStatus of the property is
\* "accepted" and its dealStatus is not "closed"; and dealStatus becomes
\* "closed" only when finalizeDeal has returned an envelope with status
\* "success".
C31_CloseDealGuarded ==
  /\ [][view.variant = "PropertyCard" /\ pc = "ready"
          /\ pc' = "awaiting" /\ op' = "finalizeDeal"
          => view.negotiationStatus = "accepted" /\ view.dealStatus # "closed"]_vars
  /\ [][view.variant = "PropertyCard"
          /\ view.dealStatus # "closed" /\ view'.dealStatus = "closed"
          => /\ op = "finalizeDeal" /\ pc = "awaiting"
             /\ result'.kind = "returned"
             /\ result'.value.status = Str("success")]_vars

C31_Witness ==
  /\ view.variant = "PropertyCard"
  /\ pc = "ready" /\ op = "finalizeDeal"
  /\ view.action = "closeDeal"
  /\ view.dealStatus = "closed" /\ view.negotiationStatus = "accepted"
  /\ result.value.status = Str("success")

====
